---- MODULE Spec2Model ----
(***************************************************************************)
(* Model of src/components/SwaggerToJMeter.tsx: the React component that   *)
(* turns an OpenAPI/Swagger document into a JMeter test plan.              *)
(*                                                                         *)
(* JavaScript values are tagged records.  A mapping keeps its entries as   *)
(* a sequence of <<key, value>> pairs, in the order Object.entries yields  *)
(* them (insertion order: no key of the model is an array index).          *)
(* Numbers are kept in hundredths (Scale) so that 99.99, 0.15, 1.5 and     *)
(* 1.75 are integers of the model.                                         *)
(***************************************************************************)
EXTENDS Integers, Sequences, FiniteSets, TLC

VARIABLES swaggerContent, jmeterXml, isProcessing, config, toast, lastRun,
          reads, explicit, download, selected, events

vars == <<swaggerContent, jmeterXml, isProcessing, config, toast, lastRun,
          reads, explicit, download, selected, events>>

----------------------------------------------------------------------------
(* Bounds of the model                                                     *)

\* frames of generateSampleJson the JavaScript call stack holds before the
\* engine throws RangeError
StackLimit == 6
\* Math.random() is k / RandomSteps for k in 0 .. RandomSteps - 1
RandomSteps == 2
\* calls of Math.random() one compile call can make with distinct results
MaxDraws == 1
\* path entries of a generated document
MaxPaths == 2
\* user events (and settled file reads) in one behaviour of the component
MaxEvents == 6
\* file reads that can be pending at the same time
MaxReads == 2

----------------------------------------------------------------------------
(* JavaScript values                                                       *)

Scale == 100

Undefined == [t |-> "undefined"]
Null      == [t |-> "null"]
Str(s)    == [t |-> "string", s |-> s]
Dec(h)    == [t |-> "number", n |-> h]
Num(i)    == Dec(i * Scale)
Bool(b)   == [t |-> "boolean", b |-> b]
NaN       == [t |-> "NaN"]
Arr(a)    == [t |-> "array", a |-> a]
Map(m)    == [t |-> "object", m |-> m]

IsMapping(v)  == v.t = "object"
IsSequence(v) == v.t = "array"
IsScalar(v)   == v.t \in {"undefined", "null", "string", "number", "boolean", "NaN"}

\* ToBoolean
Truthy(v) ==
  CASE v.t = "undefined" -> FALSE
    [] v.t = "null"      -> FALSE
    [] v.t = "string"    -> v.s # ""
    [] v.t = "number"    -> v.n # 0
    [] v.t = "boolean"   -> v.b
    [] v.t = "NaN"       -> FALSE
    [] OTHER             -> TRUE

\* typeof v === 'object'
TypeofObject(v) == v.t \in {"null", "array", "object"}

HasKey(v, k) == IsMapping(v) /\ \E i \in 1..Len(v.m) : v.m[i][1] = k

\* decimal index named by a property key, 0 when the key is not an index
IndexOf(k) ==
  IF \E i \in 0..9 : ToString(i) = k
  THEN 1 + CHOOSE i \in 0..9 : ToString(i) = k
  ELSE 0

\* v[k] on a value that is neither null nor undefined
Get(v, k) ==
  CASE IsMapping(v) ->
         IF HasKey(v, k)
         THEN v.m[CHOOSE i \in 1..Len(v.m) : v.m[i][1] = k][2]
         ELSE Undefined
    [] IsSequence(v) ->
         IF IndexOf(k) \in 1..Len(v.a) THEN v.a[IndexOf(k)] ELSE Undefined
    [] v.t = "string" ->
         IF IndexOf(k) \in 1..Len(v.s)
         THEN Str(SubSeq(v.s, IndexOf(k), IndexOf(k)))
         ELSE Undefined
    [] OTHER -> Undefined

\* v?.[k]
OptGet(v, k) == IF v.t \in {"undefined", "null"} THEN Undefined ELSE Get(v, k)

\* Object.entries(v); it throws on null and undefined (callers test first)
Entries(v) ==
  CASE IsMapping(v)  -> v.m
    [] IsSequence(v) -> [i \in 1..Len(v.a) |-> <<ToString(i - 1), v.a[i]>>]
    [] v.t = "string" -> [i \in 1..Len(v.s) |-> <<ToString(i - 1), Str(SubSeq(v.s, i, i))>>]
    [] OTHER -> << >>

\* outcome of a call that can throw
Return(v) == [ok |-> TRUE, val |-> v]
Throw(msg) == [ok |-> FALSE, err |-> msg]

TypeErrorMsg == "TypeError"
RangeErrorMsg == "Maximum call stack size exceeded"

----------------------------------------------------------------------------
(* Strings                                                                 *)

UpperCase == "ABCDEFGHIJKLMNOPQRSTUVWXYZ"
LowerCase == "abcdefghijklmnopqrstuvwxyz"

CharAt(s, i) == SubSeq(s, i, i)

\* the case mappings of the ASCII letters
LowerOf == [c \in {CharAt(UpperCase, i) : i \in 1..26} |->
              CharAt(LowerCase, CHOOSE i \in 1..26 : CharAt(UpperCase, i) = c)]
UpperOf == [c \in {CharAt(LowerCase, i) : i \in 1..26} |->
              CharAt(UpperCase, CHOOSE i \in 1..26 : CharAt(LowerCase, i) = c)]

LowerChar(c) == IF c \in DOMAIN LowerOf THEN LowerOf[c] ELSE c

UpperChar(c) == IF c \in DOMAIN UpperOf THEN UpperOf[c] ELSE c

RECURSIVE toLowerCase(_)
toLowerCase(s) ==
  IF s = "" THEN "" ELSE LowerChar(CharAt(s, 1)) \o toLowerCase(SubSeq(s, 2, Len(s)))

RECURSIVE toUpperCase(_)
toUpperCase(s) ==
  IF s = "" THEN "" ELSE UpperChar(CharAt(s, 1)) \o toUpperCase(SubSeq(s, 2, Len(s)))

\* s.startsWith(sub) at position i (1-based)
MatchAt(s, sub, i) == i + Len(sub) - 1 <= Len(s) /\ SubSeq(s, i, i + Len(sub) - 1) = sub

\* s.includes(sub)
Includes(s, sub) == \E i \in 1..(Len(s) - Len(sub) + 1) : MatchAt(s, sub, i)

\* s.indexOf(sub, from), 1-based, 0 when absent
RECURSIVE IndexFrom(_, _, _)
IndexFrom(s, sub, from) ==
  IF from + Len(sub) - 1 > Len(s) THEN 0
  ELSE IF MatchAt(s, sub, from) THEN from
  ELSE IndexFrom(s, sub, from + 1)

FirstIndex(s, sub) == IndexFrom(s, sub, 1)

\* s.replace(sub, by) with a string pattern: the first occurrence only
ReplaceFirst(s, sub, by) ==
  IF FirstIndex(s, sub) = 0 THEN s
  ELSE SubSeq(s, 1, FirstIndex(s, sub) - 1) \o by
         \o SubSeq(s, FirstIndex(s, sub) + Len(sub), Len(s))

\* s.replace(/c/g, by) for a one-character pattern c
RECURSIVE ReplaceAllChar(_, _, _)
ReplaceAllChar(s, c, by) ==
  IF s = "" THEN ""
  ELSE (IF CharAt(s, 1) = c THEN by ELSE CharAt(s, 1))
         \o ReplaceAllChar(SubSeq(s, 2, Len(s)), c, by)

\* s.split(sep) for a one-character separator
RECURSIVE Split(_, _)
Split(s, sep) ==
  IF FirstIndex(s, sep) = 0 THEN <<s>>
  ELSE <<SubSeq(s, 1, FirstIndex(s, sep) - 1)>>
         \o Split(SubSeq(s, FirstIndex(s, sep) + 1, Len(s)), sep)

\* propertyName.charAt(0).toUpperCase() + propertyName.slice(1)
Capitalize(s) ==
  IF s = "" THEN "" ELSE UpperChar(CharAt(s, 1)) \o SubSeq(s, 2, Len(s))

----------------------------------------------------------------------------
(* generateJMeterXml: reference resolution and sample synthesis            *)

\* resolved = resolved?.[segment] for each segment of refPath
RECURSIVE WalkRef(_, _)
WalkRef(resolved, refPath) ==
  IF refPath = << >> THEN resolved
  ELSE WalkRef(OptGet(resolved, Head(refPath)), Tail(refPath))

\* resolved || {}
OrEmptySchema(resolved) == IF Truthy(resolved) THEN resolved ELSE Map(<< >>)

\* the body of `if (schema.$ref)`: ref is the truthy schema.$ref
ResolveRef(ref, spec) ==
  IF ref.t # "string" THEN Throw(TypeErrorMsg)
  ELSE Return(OrEmptySchema(WalkRef(spec, Split(ReplaceFirst(ref.s, "#/", ""), "/"))))

\* resolveSchema(schema, spec)
resolveSchema(schema, spec) ==
  IF schema.t \in {"undefined", "null"} THEN Throw(TypeErrorMsg)
  ELSE IF ~Truthy(Get(schema, "$ref")) THEN Return(schema)
  ELSE ResolveRef(Get(schema, "$ref"), spec)

\* ToNumber of a declared minimum / maximum
ToNumber(v) ==
  CASE v.t = "number"  -> v
    [] v.t = "null"    -> Dec(0)
    [] v.t = "boolean" -> IF v.b THEN Num(1) ELSE Dec(0)
    [] OTHER           -> NaN

MathMax(v, d) ==
  IF ToNumber(v).t = "NaN" THEN NaN
  ELSE Dec(IF ToNumber(v).n >= d THEN ToNumber(v).n ELSE d)

MathMin(v, d) ==
  IF ToNumber(v).t = "NaN" THEN NaN
  ELSE Dec(IF ToNumber(v).n <= d THEN ToNumber(v).n ELSE d)

\* Math.floor(Math.random() * n) + 1 for the draw-th call of Math.random()
RandomUpTo(n, ctx, draw) ==
  ((ctx.rand[(draw % MaxDraws) + 1] * n) \div RandomSteps) + 1

\* if (propertyName) { ... lowerName.includes(sub) ... }
Hit(propertyName, lowerName, sub) == propertyName # "" /\ Includes(lowerName, sub)

Same(v, st) == [ok |-> TRUE, val |-> v, st |-> st]

\* a value from idCounter without the increment
CountedStuck(v, st) == [ok |-> TRUE, val |-> v, st |-> st]

\* a value from idCounter++
Counted(v, st) == [ok |-> TRUE, val |-> v, st |-> [st EXCEPT !.id = @ + 1]]

\* a value from Math.random()
Drawn(v, st) == [ok |-> TRUE, val |-> v, st |-> [st EXCEPT !.draws = @ + 1]]

\* the end of case 'string': the enum, then 'sample'
EnumOrSample(enum, st) ==
  IF Truthy(enum) /\ enum.t = "array" /\ Len(enum.a) > 0
  THEN Same(enum.a[1], st)
  ELSE Same(Str("sample"), st)

\* case 'string' of generateSampleJson, lowerName = propertyName.toLowerCase()
StringByName(resolvedSchema, propertyName, lowerName, st) ==
  IF Hit(propertyName, lowerName, "id") THEN Counted(Str(ToString(st.id)), st)
  ELSE IF Hit(propertyName, lowerName, "name")
       THEN Same(Str("sample" \o Capitalize(propertyName)), st)
  ELSE IF Hit(propertyName, lowerName, "email") THEN Same(Str("sample@example.com"), st)
  ELSE IF Hit(propertyName, lowerName, "url") \/ Hit(propertyName, lowerName, "link")
       THEN Same(Str("https://example.com"), st)
  ELSE IF Hit(propertyName, lowerName, "phone") THEN Same(Str("+1234567890"), st)
  ELSE IF Hit(propertyName, lowerName, "address") THEN Same(Str("123 Sample St"), st)
  ELSE IF Hit(propertyName, lowerName, "city") THEN Same(Str("Sample City"), st)
  ELSE IF Hit(propertyName, lowerName, "country") THEN Same(Str("Sample Country"), st)
  ELSE IF Hit(propertyName, lowerName, "description") \/ Hit(propertyName, lowerName, "comment")
       THEN Same(Str("Sample description"), st)
  ELSE IF Hit(propertyName, lowerName, "status") THEN Same(Str("active"), st)
  ELSE IF Hit(propertyName, lowerName, "type") \/ Hit(propertyName, lowerName, "category")
       THEN Same(Str("sample"), st)
  ELSE EnumOrSample(Get(resolvedSchema, "enum"), st)

SampleString(resolvedSchema, propertyName, st) ==
  StringByName(resolvedSchema, propertyName, toLowerCase(propertyName), st)

\* the minimum / maximum constraints of case 'integer' and case 'number'
Constrained(minimum, maximum, st) ==
  IF minimum # Undefined THEN Same(MathMax(minimum, 1 * Scale), st)
  ELSE IF maximum # Undefined THEN Same(MathMin(maximum, 100 * Scale), st)
  ELSE Same(Num(1), st)

\* case 'integer' of generateSampleJson
IntegerByName(resolvedSchema, propertyName, lowerName, st, ctx) ==
  IF Hit(propertyName, lowerName, "id") THEN Counted(Num(st.id), st)
  ELSE IF Hit(propertyName, lowerName, "count") \/ Hit(propertyName, lowerName, "quantity")
       THEN Same(Num(5), st)
  ELSE IF Hit(propertyName, lowerName, "age") THEN Same(Num(25), st)
  ELSE IF Hit(propertyName, lowerName, "year") THEN Same(Num(ctx.year), st)
  ELSE IF Hit(propertyName, lowerName, "month")
       THEN Drawn(Num(RandomUpTo(12, ctx, st.draws)), st)
  ELSE IF Hit(propertyName, lowerName, "day")
       THEN Drawn(Num(RandomUpTo(28, ctx, st.draws)), st)
  ELSE IF Hit(propertyName, lowerName, "price") \/ Hit(propertyName, lowerName, "amount")
       THEN Same(Num(100), st)
  ELSE Constrained(Get(resolvedSchema, "minimum"), Get(resolvedSchema, "maximum"), st)

SampleInteger(resolvedSchema, propertyName, st, ctx) ==
  IntegerByName(resolvedSchema, propertyName, toLowerCase(propertyName), st, ctx)

\* case 'number' of generateSampleJson
NumberByName(resolvedSchema, propertyName, lowerName, st) ==
  IF \/ Hit(propertyName, lowerName, "price") \/ Hit(propertyName, lowerName, "amount")
     \/ Hit(propertyName, lowerName, "cost")
  THEN Same(Dec(9999), st)
  ELSE IF Hit(propertyName, lowerName, "rate") \/ Hit(propertyName, lowerName, "percentage")
       THEN Same(Dec(15), st)
  ELSE IF Hit(propertyName, lowerName, "weight") THEN Same(Dec(150), st)
  ELSE IF Hit(propertyName, lowerName, "height") THEN Same(Dec(175), st)
  ELSE Constrained(Get(resolvedSchema, "minimum"), Get(resolvedSchema, "maximum"), st)

SampleNumber(resolvedSchema, propertyName, st) ==
  NumberByName(resolvedSchema, propertyName, toLowerCase(propertyName), st)

\* case 'boolean' of generateSampleJson
BooleanByName(propertyName, lowerName, st) ==
  IF \/ Hit(propertyName, lowerName, "active") \/ Hit(propertyName, lowerName, "enabled")
     \/ Hit(propertyName, lowerName, "available")
  THEN Same(Bool(TRUE), st)
  ELSE IF \/ Hit(propertyName, lowerName, "deleted") \/ Hit(propertyName, lowerName, "disabled")
          \/ Hit(propertyName, lowerName, "hidden")
  THEN Same(Bool(FALSE), st)
  ELSE Same(Bool(TRUE), st)

SampleBoolean(propertyName, st) ==
  BooleanByName(propertyName, toLowerCase(propertyName), st)

\* generateSampleJson(schema, propertyName): st is the closure's idCounter
\* and the number of Math.random() calls made so far, depth the number of
\* frames of generateSampleJson on the call stack, ctx the enclosing spec
\* with the clock and the random source.  An absent propertyName is "".
RECURSIVE generateSampleJson(_, _, _, _, _)
RECURSIVE SampleResolved(_, _, _, _, _)
RECURSIVE SampleByType(_, _, _, _, _, _)
RECURSIVE SampleProperties(_, _, _, _, _)
RECURSIVE PutProperty(_, _, _, _, _, _)

generateSampleJson(schema, propertyName, st, depth, ctx) ==
  IF depth > StackLimit THEN Throw(RangeErrorMsg)
  ELSE SampleResolved(resolveSchema(schema, ctx.spec), propertyName, st, depth, ctx)

\* the body of generateSampleJson after the call of resolveSchema
SampleResolved(r, propertyName, st, depth, ctx) ==
  IF ~r.ok THEN r
  ELSE IF Get(r.val, "example") # Undefined THEN Same(Get(r.val, "example"), st)
  ELSE IF /\ Truthy(Get(r.val, "examples"))
          /\ Get(r.val, "examples").t = "array"
          /\ Len(Get(r.val, "examples").a) > 0
       THEN Same(Get(r.val, "examples").a[1], st)
  ELSE SampleByType(r.val, Get(r.val, "type"), propertyName, st, depth, ctx)

\* [sample] for the sample of resolvedSchema.items
WrapItem(e) == IF e.ok THEN [e EXCEPT !.val = Arr(<<@>>)] ELSE e

\* switch (resolvedSchema.type)
SampleByType(resolvedSchema, type, propertyName, st, depth, ctx) ==
  CASE type = Str("object") ->
         IF Truthy(Get(resolvedSchema, "properties"))
         THEN SampleProperties(Entries(Get(resolvedSchema, "properties")), << >>,
                               st, depth, ctx)
         ELSE Same(Map(<< >>), st)
    [] type = Str("array") ->
         IF Truthy(Get(resolvedSchema, "items"))
         THEN WrapItem(generateSampleJson(Get(resolvedSchema, "items"), "", st,
                                          depth + 1, ctx))
         ELSE Same(Arr(<< >>), st)
    [] type = Str("string")  -> SampleString(resolvedSchema, propertyName, st)
    [] type = Str("integer") -> SampleInteger(resolvedSchema, propertyName, st, ctx)
    [] type = Str("number")  -> SampleNumber(resolvedSchema, propertyName, st)
    [] type = Str("boolean") -> SampleBoolean(propertyName, st)
    [] OTHER -> Same(Null, st)

\* the loop over Object.entries(resolvedSchema.properties)
SampleProperties(entries, obj, st, depth, ctx) ==
  IF entries = << >> THEN Same(Map(obj), st)
  ELSE PutProperty(entries, obj,
                   generateSampleJson(Head(entries)[2], Head(entries)[1], st,
                                      depth + 1, ctx),
                   st, depth, ctx)

\* obj[key] = e for the first of entries, then the rest of the loop
PutProperty(entries, obj, e, st, depth, ctx) ==
  IF e.ok
  THEN SampleProperties(Tail(entries), Append(obj, <<Head(entries)[1], e.val>>),
                        e.st, depth, ctx)
  ELSE e

----------------------------------------------------------------------------
(* JSON.stringify(value, null, 2) and template interpolation               *)

\* decimal text of a number kept in hundredths
NumText(n) ==
  LET a    == IF n < 0 THEN 0 - n ELSE n
      frac == a % Scale
  IN  (IF n < 0 THEN "-" ELSE "") \o ToString(a \div Scale)
        \o (IF frac = 0 THEN ""
            ELSE IF frac % 10 = 0 THEN "." \o ToString(frac \div 10)
            ELSE "." \o (IF frac < 10 THEN "0" ELSE "") \o ToString(frac))

\* the escapes JSON.stringify applies inside a string literal
RECURSIVE JsonEscape(_)
JsonEscape(s) ==
  IF s = "" THEN ""
  ELSE (CASE CharAt(s, 1) = "\"" -> "\\\""
          [] CharAt(s, 1) = "\\" -> "\\\\"
          [] CharAt(s, 1) = "\n" -> "\\n"
          [] OTHER -> CharAt(s, 1))
         \o JsonEscape(SubSeq(s, 2, Len(s)))

Quote(s) == "\"" \o JsonEscape(s) \o "\""

RECURSIVE Pad(_)
Pad(n) == IF n <= 0 THEN "" ELSE " " \o Pad(n - 1)

RECURSIVE Stringify(_, _)
RECURSIVE StringifyItems(_, _, _)
RECURSIVE StringifyMembers(_, _, _)
\* JSON.stringify(v, null, 2) at the given indentation
Stringify(v, indent) ==
  CASE v.t = "string"  -> Quote(v.s)
    [] v.t = "number"  -> NumText(v.n)
    [] v.t = "boolean" -> IF v.b THEN "true" ELSE "false"
    [] v.t = "array"   ->
         IF v.a = << >> THEN "[]"
         ELSE "[\n" \o StringifyItems(v.a, 1, indent + 2) \o "\n" \o Pad(indent) \o "]"
    [] v.t = "object"  ->
         IF v.m = << >> THEN "{}"
         ELSE "{\n" \o StringifyMembers(v.m, 1, indent + 2) \o "\n" \o Pad(indent) \o "}"
    [] OTHER -> "null"

StringifyItems(a, i, indent) ==
  IF i > Len(a) THEN ""
  ELSE Pad(indent) \o Stringify(a[i], indent)
         \o (IF i < Len(a) THEN ",\n" ELSE "")
         \o StringifyItems(a, i + 1, indent)

StringifyMembers(m, i, indent) ==
  IF i > Len(m) THEN ""
  ELSE Pad(indent) \o Quote(m[i][1]) \o ": " \o Stringify(m[i][2], indent)
         \o (IF i < Len(m) THEN ",\n" ELSE "")
         \o StringifyMembers(m, i + 1, indent)

\* `${v}` in a template literal
ToText(v) ==
  CASE v.t = "string"    -> v.s
    [] v.t = "number"    -> NumText(v.n)
    [] v.t = "boolean"   -> IF v.b THEN "true" ELSE "false"
    [] v.t = "null"      -> "null"
    [] v.t = "undefined" -> "undefined"
    [] v.t = "NaN"       -> "NaN"
    [] v.t = "array"     -> IF v.a = << >> THEN "" ELSE "[array]"
    [] OTHER             -> "[object Object]"

----------------------------------------------------------------------------
(* generateJMeterXml                                                       *)

\* JSON.stringify(sampleData, null, 2) of the sample, if it was made
StringifySample(sampleData) ==
  IF sampleData.ok THEN Return(Stringify(sampleData.val, 0)) ELSE Throw(sampleData.err)

\* generateRequestBody after `if (!requestBody?.content) return ''`
BodyOfJsonContent(jsonContent, ctx) ==
  IF ~Truthy(OptGet(jsonContent, "schema")) THEN Return("")
  ELSE StringifySample(generateSampleJson(Get(jsonContent, "schema"), "",
                                          [id |-> 1, draws |-> 0], 1, ctx))

\* generateRequestBody(requestBody): the body text, '' when there is none
generateRequestBody(requestBody, ctx) ==
  IF ~Truthy(OptGet(requestBody, "content")) THEN Return("")
  ELSE BodyOfJsonContent(Get(Get(requestBody, "content"), "application/json"), ctx)

HttpMethods == <<"get", "post", "put", "delete", "patch", "head", "options">>

\* a filter that also lets the TRACE method through
IsHttpMethodWithTrace(method) ==
  method = "trace" \/ \E i \in 1..Len(HttpMethods) : HttpMethods[i] = method

IsHttpMethod(method) == \E i \in 1..Len(HttpMethods) : HttpMethods[i] = method

\* operations.push({...}) for one method entry
PushOperation(path, method, operation, operations) ==
  Append(operations,
         [path        |-> path,
          method      |-> toUpperCase(method),
          operationId |-> Get(operation, "operationId"),
          summary     |-> Get(operation, "summary"),
          requestBody |-> Get(operation, "requestBody"),
          tags        |-> Get(operation, "tags")])

\* the inner loop of the extraction: the entries of one path item
RECURSIVE ExtractMethods(_, _, _)
ExtractMethods(path, entries, operations) ==
  IF entries = << >> THEN Return(operations)
  ELSE IF ~IsHttpMethod(Head(entries)[1])
  THEN ExtractMethods(path, Tail(entries), operations)
  ELSE IF Head(entries)[2].t \in {"undefined", "null"} THEN Throw(TypeErrorMsg)
  ELSE ExtractMethods(path, Tail(entries),
                      PushOperation(path, Head(entries)[1], Head(entries)[2], operations))

\* the outer loop of the extraction: the entries of spec.paths || {}
RECURSIVE ExtractOperations(_, _)
RECURSIVE ExtractRest(_, _)
ExtractOperations(entries, operations) ==
  IF entries = << >> THEN Return(operations)
  ELSE IF Head(entries)[2].t \in {"undefined", "null"} THEN Throw(TypeErrorMsg)
  ELSE ExtractRest(entries,
                   ExtractMethods(Head(entries)[1], Entries(Head(entries)[2]), operations))

\* the next iterations of the outer loop, if the inner loop did not throw
ExtractRest(entries, r) ==
  IF r.ok THEN ExtractOperations(Tail(entries), r.val) ELSE r

\* op.path.replace(/{([^}]+)}/g, '${$1}')
RECURSIVE pathWithoutParams(_)
pathWithoutParams(path) ==
  IF path = "" THEN ""
  ELSE IF CharAt(path, 1) = "{" /\ FirstIndex(path, "}") >= 3
  THEN "${" \o SubSeq(path, 2, FirstIndex(path, "}") - 1) \o "}"
         \o pathWithoutParams(SubSeq(path, FirstIndex(path, "}") + 1, Len(path)))
  ELSE CharAt(path, 1) \o pathWithoutParams(SubSeq(path, 2, Len(path)))

\* the methods the comment of generateRequestBody names
BodyMethodsOfComment == {"POST", "PUT", "DELETE"}

BodyMethods == {"POST", "PUT", "PATCH"}

\* op.operationId || op.summary || `${op.method} ${op.path}`
samplerName(op) ==
  IF Truthy(op.operationId) THEN ToText(op.operationId)
  ELSE IF Truthy(op.summary) THEN ToText(op.summary)
  ELSE op.method \o " " \o op.path

\* the HTTPSamplerProxy element of an operation and its body text
SamplerElement(op, parts, requestBody) ==
  IF ~requestBody.ok THEN requestBody
  ELSE Return(
    [testname    |-> samplerName(op),
     postBodyRaw |-> requestBody.val # "",
     arguments   |-> IF requestBody.val # ""
                     THEN <<ReplaceAllChar(requestBody.val, "\"", "&quot;")>>
                     ELSE << >>,
     domain      |-> parts.domain,
     port        |-> parts.port,
     protocol    |-> parts.protocol,
     path        |-> parts.path \o pathWithoutParams(op.path),
     method      |-> op.method])

\* one element of operations.map(...): the HTTPSamplerProxy of an operation
httpSampler(op, parts, ctx) ==
  SamplerElement(op, parts,
                 IF op.method \in BodyMethods
                 THEN generateRequestBody(op.requestBody, ctx)
                 ELSE Return(""))

RECURSIVE httpSamplers(_, _, _, _)
RECURSIVE NextSamplers(_, _, _, _, _)
httpSamplers(operations, parts, ctx, done) ==
  IF operations = << >> THEN Return(done)
  ELSE NextSamplers(operations, parts, ctx, done, httpSampler(Head(operations), parts, ctx))

\* the rest of the map, if the callback did not throw
NextSamplers(operations, parts, ctx, done, r) ==
  IF r.ok THEN httpSamplers(Tail(operations), parts, ctx, Append(done, r.val)) ELSE r

\* the URL of an authority (host[:port]) and a pathname
UrlOfAuthority(scheme, authority, colon, pathname) ==
  IF (IF colon = 0 THEN authority ELSE SubSeq(authority, 1, colon - 1)) = ""
  THEN Throw(TypeErrorMsg)
  ELSE Return(
    [protocol |-> scheme \o ":",
     hostname |-> IF colon = 0 THEN authority ELSE SubSeq(authority, 1, colon - 1),
     port     |-> IF colon = 0 THEN ""
                  ELSE IF SubSeq(authority, colon + 1, Len(authority))
                            = (IF scheme = "https" THEN "443" ELSE "80")
                  THEN ""
                  ELSE SubSeq(authority, colon + 1, Len(authority)),
     pathname |-> pathname])

\* the URL of what follows "scheme://", slash the index of its first "/"
UrlOfRest(scheme, rest, slash) ==
  IF slash = 0
  THEN UrlOfAuthority(scheme, rest, FirstIndex(rest, ":"), "/")
  ELSE UrlOfAuthority(scheme, SubSeq(rest, 1, slash - 1),
                      FirstIndex(SubSeq(rest, 1, slash - 1), ":"),
                      SubSeq(rest, slash, Len(rest)))

\* new URL(baseUrl) for the base URLs of the model (http, https or no scheme)
UrlParse(baseUrl) ==
  IF MatchAt(baseUrl, "https://", 1)
  THEN UrlOfRest("https", SubSeq(baseUrl, 9, Len(baseUrl)),
                 FirstIndex(SubSeq(baseUrl, 9, Len(baseUrl)), "/"))
  ELSE IF MatchAt(baseUrl, "http://", 1)
  THEN UrlOfRest("http", SubSeq(baseUrl, 8, Len(baseUrl)),
                 FirstIndex(SubSeq(baseUrl, 8, Len(baseUrl)), "/"))
  ELSE Throw(TypeErrorMsg)

\* config.baseUrl.replace(/^https?:\/\//, '')
StripScheme(baseUrl) ==
  IF MatchAt(baseUrl, "https://", 1) THEN SubSeq(baseUrl, 9, Len(baseUrl))
  ELSE IF MatchAt(baseUrl, "http://", 1) THEN SubSeq(baseUrl, 8, Len(baseUrl))
  ELSE baseUrl

\* the two branches of the urlParts closure
PartsOfUrl(url, baseUrl) ==
  IF url.ok
  THEN [protocol |-> ReplaceFirst(url.val.protocol, ":", ""),
        domain   |-> url.val.hostname,
        port     |-> IF url.val.port # "" THEN url.val.port
                     ELSE IF url.val.protocol = "https:" THEN "443" ELSE "80",
        path     |-> IF url.val.pathname # "/" THEN url.val.pathname ELSE ""]
  ELSE [protocol |-> "https",
        domain   |-> Split(StripScheme(baseUrl), "/")[1],
        port     |-> "",
        path     |-> ""]

urlParts(cfg) == PartsOfUrl(UrlParse(cfg.baseUrl), cfg.baseUrl)

\* the document generateJMeterXml returns: the interpolated values of the
\* template and its repeated elements, in the order of the template
TestPlan(cfg, samplers) ==
  IF ~samplers.ok THEN samplers
  ELSE Return(
    [kind        |-> "jmx",
     testname    |-> cfg.testPlanName,
     BASE_URL    |-> cfg.baseUrl,
     loops       |-> cfg.loopCount,
     num_threads |-> cfg.threadCount,
     ramp_time   |-> cfg.rampUpTime,
     defaults    |-> [domain |-> "", port |-> "", protocol |-> "", path |-> ""],
     headers     |-> <<"Content-Type", "Accept", "User-Agent">>,
     samplers    |-> samplers.val,
     collectors  |-> <<"View Results Tree", "Summary Report">>])

\* generateJMeterXml after the extraction of the operations
PlanOfOperations(operations, cfg, ctx) ==
  IF ~operations.ok THEN operations
  ELSE TestPlan(cfg, httpSamplers(operations.val, urlParts(cfg), ctx, << >>))

generateJMeterXml(spec, cfg, ctx) ==
  PlanOfOperations(
    ExtractOperations(
      Entries(IF Truthy(Get(spec, "paths")) THEN Get(spec, "paths") ELSE Map(<< >>)),
      << >>),
    cfg, ctx)

----------------------------------------------------------------------------
(* handleGenerateJMeter                                                    *)

\* A raw text is known by what String.trim, JSON.parse and yaml.load make
\* of it: blank, and the outcome of each parser.
\* The value a text parses to is kept as the text declares it; the parsers
\* build JavaScript objects from it, whose keys come in own-property order.
RECURSIVE IndexKeysFrom(_, _)
\* the entries whose key is the array index d or a larger one, ascending
\* (the index keys of the model have one digit)
IndexKeysFrom(m, d) ==
  IF d > 9 THEN << >>
  ELSE SelectSeq(m, LAMBDA e : e[1] = ToString(d)) \o IndexKeysFrom(m, d + 1)

\* the keys that are array indexes
IndexKeys == {"0", "1", "2", "3", "4", "5", "6", "7", "8", "9"}

\* own-property order: array-index keys ascending, then the other keys in
\* the order they were created
OwnPropertyOrder(m) ==
  IF \A i \in 1..Len(m) : m[i][1] \notin IndexKeys THEN m
  ELSE IndexKeysFrom(m, 0) \o SelectSeq(m, LAMBDA e : e[1] \notin IndexKeys)

RECURSIVE Materialize(_)
RECURSIVE MaterializeEntries(_)
\* the JavaScript value built for a declared value
Materialize(v) ==
  CASE IsMapping(v)  -> Map(MaterializeEntries(OwnPropertyOrder(v.m)))
    [] IsSequence(v) -> Arr([i \in 1..Len(v.a) |-> Materialize(v.a[i])])
    [] OTHER -> v

MaterializeEntries(m) == [i \in 1..Len(m) |-> <<m[i][1], Materialize(m[i][2])>>]

\* the outcome of a parser on the declared value it reads
Built(outcome) ==
  IF outcome.ok THEN [ok |-> TRUE, val |-> Materialize(outcome.val)] ELSE outcome

JSONparse(text) == Built(text.json)
yamlLoad(text)  == Built(text.yaml)

MalformedSpec        == "Invalid JSON or YAML format"
InvalidSpecShape     == "Invalid specification format"
MissingVersionMarker == "Not a valid OpenAPI/Swagger specification. Missing 'openapi' or 'swagger' field."
MissingPaths         == "No paths found in the specification"

\* the catch of JSON.parse: yaml.load, and the MalformedSpec throw in its catch
SecondaryParse(yaml) ==
  IF yaml.ok
  THEN [parsers |-> <<"JSON.parse", "yaml.load">>, ok |-> TRUE, spec |-> yaml.val]
  ELSE [parsers |-> <<"JSON.parse", "yaml.load">>, ok |-> FALSE, spec |-> Undefined]

\* a catch of JSON.parse without the fallback to the secondary encoding
PrimaryParseOnly(json, text) ==
  IF json.ok
  THEN [parsers |-> <<"JSON.parse">>, ok |-> TRUE, spec |-> json.val]
  ELSE [parsers |-> <<"JSON.parse">>, ok |-> FALSE, spec |-> Undefined]

\* spec = JSON.parse(swaggerContent), or what its catch makes of the text
PrimaryParse(json, text) ==
  IF json.ok
  THEN [parsers |-> <<"JSON.parse">>, ok |-> TRUE, spec |-> json.val]
  ELSE SecondaryParse(yamlLoad(text))

\* the nested try blocks that parse swaggerContent: JSON.parse, and
\* yaml.load in its catch
parseSpec(text) == PrimaryParse(JSONparse(text), text)

\* a validation that looks for the paths before the version marker
validateSpecPathsFirst(spec) ==
  IF ~Truthy(spec) \/ ~TypeofObject(spec)
  THEN [stage |-> "shape", error |-> InvalidSpecShape]
  ELSE IF ~Truthy(Get(spec, "paths")) \/ ~TypeofObject(Get(spec, "paths"))
  THEN [stage |-> "paths", error |-> MissingPaths]
  ELSE IF ~Truthy(Get(spec, "openapi")) /\ ~Truthy(Get(spec, "swagger"))
  THEN [stage |-> "version", error |-> MissingVersionMarker]
  ELSE [stage |-> "generate", error |-> ""]

\* the basic validation: the check that fails and the message it throws
validateSpec(spec) ==
  IF ~Truthy(spec) \/ ~TypeofObject(spec)
  THEN [stage |-> "shape", error |-> InvalidSpecShape]
  ELSE IF ~Truthy(Get(spec, "openapi")) /\ ~Truthy(Get(spec, "swagger"))
  THEN [stage |-> "version", error |-> MissingVersionMarker]
  ELSE IF ~Truthy(Get(spec, "paths")) \/ ~TypeofObject(Get(spec, "paths"))
  THEN [stage |-> "paths", error |-> MissingPaths]
  ELSE [stage |-> "generate", error |-> ""]

\* the outcome of a try block that threw msg at the given stage
Failed(parsed, stage, msg) ==
  [parsers |-> parsed.parsers, spec |-> parsed.spec, stage |-> stage,
   ok |-> FALSE, error |-> msg, xml |-> [kind |-> "none"]]

\* the outcome of the try block once generateJMeterXml returned or threw
Generated(parsed, xml) ==
  IF ~xml.ok THEN Failed(parsed, "generate", xml.err)
  ELSE [parsers |-> parsed.parsers, spec |-> parsed.spec, stage |-> "generate",
        ok |-> TRUE, error |-> "", xml |-> xml.val]

\* the try block after the basic validation
CompileValidated(parsed, valid, cfg, env) ==
  IF valid.error # "" THEN Failed(parsed, valid.stage, valid.error)
  ELSE Generated(parsed,
                 generateJMeterXml(parsed.spec, cfg,
                   [spec |-> parsed.spec, year |-> env.year, rand |-> env.rand]))

\* the try block after the parse
CompileParsed(parsed, cfg, env) ==
  IF ~parsed.ok THEN Failed(parsed, "parse", MalformedSpec)
  ELSE CompileValidated(parsed, validateSpec(parsed.spec), cfg, env)

\* the try block of handleGenerateJMeter: what it parsed, how far it got,
\* and the document or the message of the error it threw
Compile(text, cfg, env) == CompileParsed(parseSpec(text), cfg, env)

----------------------------------------------------------------------------
(* The documents, texts and configurations the model draws from            *)

Obj1(k, v)                 == Map(<< <<k, v>> >>)
Obj2(k1, v1, k2, v2)       == Map(<< <<k1, v1>>, <<k2, v2>> >>)
Obj3(k1, v1, k2, v2, k3, v3) == Map(<< <<k1, v1>>, <<k2, v2>>, <<k3, v3>> >>)

Typed(type) == Obj1("type", Str(type))
Ref(name)   == Obj1("$ref", Str("#/components/schemas/" \o name))

\* components.schemas of every generated document
ComponentSchemas ==
  Map(<< <<"Item",  Obj2("type", Str("object"),
                         "properties", Obj2("id", Typed("integer"),
                                            "name", Typed("string")))>>,
         <<"Alias", Ref("Item")>>,
         <<"Alias2", Ref("Alias")>>,
         <<"Node",  Obj2("type", Str("object"),
                         "properties", Obj2("value", Typed("string"),
                                            "next", Ref("Node")))>>,
         <<"Ping",  Obj2("type", Str("object"),
                         "properties", Obj1("pong", Ref("Pong")))>>,
         <<"Pong",  Obj2("type", Str("object"),
                         "properties", Obj1("ping", Ref("Ping")))>> >>)

\* an object whose string properties declare an example or an enum
PrioritySchema ==
  Obj2("type", Str("object"),
       "properties",
       Obj3("color",  Obj2("type", Str("string"),
                           "enum", Arr(<<Str("red"), Str("green")>>)),
            "status", Obj2("type", Str("string"),
                           "enum", Arr(<<Str("open"), Str("closed")>>)),
            "email",  Obj3("type", Str("string"),
                           "example", Str("ops@example.org"),
                           "enum", Arr(<<Str("first@example.org")>>))))

\* an object without identifier, month or day fields
VintageSchema ==
  Obj2("type", Str("object"),
       "properties", Obj2("title", Typed("string"), "year", Typed("integer")))

\* request body schemas
Schemas ==
  { Typed("string"),
    PrioritySchema,
    VintageSchema,
    Obj2("type", Str("string"), "enum", Arr(<<Str("red"), Str("green")>>)),
    Obj2("type", Str("integer"), "minimum", Num(5)),
    Obj2("type", Str("array"), "items", Typed("boolean")),
    Obj2("type", Str("object"),
         "properties", Obj2("id", Typed("integer"), "name", Typed("string"))),
    Obj2("type", Str("object"),
         "properties", Obj2("orderId", Typed("string"), "userId", Typed("integer"))),
    Obj2("type", Str("object"),
         "properties", Obj3("month", Typed("integer"), "day", Typed("integer"),
                            "year", Typed("integer"))),
    Obj2("type", Str("object"), "example", Obj1("note", Str("say \"hi\""))),
    Obj2("type", Str("object"),
         "properties", Obj1("owner", Ref("Alias"))),
    Obj2("type", Str("object"),
         "properties", Obj1("ghost", Ref("Missing"))),
    Obj2("type", Str("object"),
         "properties", Obj1("broken", Null)),
    Map(<< >>),
    Ref("Item"),
    Ref("Alias"),
    Ref("Alias2"),
    Ref("Missing"),
    Ref("Node"),
    Ref("Ping") }

JsonMedia(m) == Obj1("content", Obj1("application/json", m))

\* values of an operation's requestBody; Undefined is an operation without
RequestBodies ==
  { Undefined,
    Null,
    Map(<< >>),
    Obj1("content", Obj1("text/plain", Obj1("schema", Typed("string")))),
    JsonMedia(Map(<< >>)),
    JsonMedia(Obj1("schema", Null)) }
  \cup { JsonMedia(Obj1("schema", schema)) : schema \in Schemas }

Operation(requestBody) ==
  IF requestBody = Undefined THEN Obj1("summary", Str("plain operation"))
  ELSE Obj2("operationId", Str("withBody"), "requestBody", requestBody)

PlainOperation == Map(<< >>)

\* path items of the generated path tables
PathItems ==
  { Obj2("post", PlainOperation, "get", Obj1("operationId", Str("listItems"))),
    Obj3("parameters", Arr(<< >>), "put", PlainOperation, "delete", PlainOperation),
    Obj3("patch", PlainOperation, "head", Obj1("summary", Str("probe")),
         "options", PlainOperation),
    Obj3("GET", PlainOperation, "x-internal", Bool(TRUE), "trace", PlainOperation) }

PathNames == {"/items", "/items/{id}", "/users/{userId}/orders"}

\* path tables: up to MaxPaths entries with distinct names, in every order
RECURSIVE PathTables(_)
PathTables(n) ==
  IF n = 0 THEN { << >> }
  ELSE PathTables(n - 1) \cup
       { Append(table, <<name, item>>) :
           table \in { t \in PathTables(n - 1) : Len(t) = n - 1 },
           name \in PathNames, item \in PathItems }

DistinctNames(table) ==
  \A i, j \in 1..Len(table) : table[i][1] = table[j][1] => i = j

Document(paths) ==
  Obj3("openapi", Str("3.0.0"),
       "paths", paths,
       "components", Obj1("schemas", ComponentSchemas))

\* documents with a path table of plain operations
TableDocuments ==
  { Document(Map(table)) : table \in { t \in PathTables(MaxPaths) : DistinctNames(t) } }

\* documents with one operation: every method with every request body
BodyDocuments ==
  { Document(Obj1("/items", Obj1(HttpMethods[i], Operation(requestBody)))) :
      i \in 1..Len(HttpMethods), requestBody \in RequestBodies }

\* request body schemas with identifier fields
ItemSchema ==
  Obj2("type", Str("object"),
       "properties", Obj2("id", Typed("integer"), "name", Typed("string")))

OrderSchema ==
  Obj2("type", Str("object"),
       "properties", Obj2("orderId", Typed("string"), "userId", Typed("integer")))

IdSchemas == {ItemSchema, OrderSchema, Ref("Item")}

\* documents with three request bodies in one compile call
SharedDocuments ==
  { Document(Obj2("/items",
                  Obj2("post", Operation(JsonMedia(Obj1("schema", a))),
                       "put", Operation(JsonMedia(Obj1("schema", b)))),
                  "/items/{id}",
                  Obj2("get", PlainOperation,
                       "patch", Operation(JsonMedia(Obj1("schema", a)))))) :
      a \in IdSchemas, b \in IdSchemas }

\* a numeric schema with the bounds it declares (Undefined: not declared)
Bounded(type, minimum, maximum) ==
  Map(<< <<"type", Str(type)>> >>
      \o (IF minimum = Undefined THEN << >> ELSE << <<"minimum", minimum>> >>)
      \o (IF maximum = Undefined THEN << >> ELSE << <<"maximum", maximum>> >>))

Minimums == {Undefined, Dec(0), Dec(50), Num(5), Num(200)}
Maximums == {Undefined, Dec(0), Dec(75), Num(50), Num(200)}

\* the declared bounds with minimum <= maximum
BoundPairs ==
  { p \in Minimums \X Maximums :
      p[1] = Undefined \/ p[2] = Undefined \/ p[1].n <= p[2].n }

\* objects with one numeric property whose name matches no heuristic
BoundedSchemas ==
  { Obj2("type", Str("object"),
         "properties", Obj1("size", Bounded(type, p[1], p[2]))) :
      type \in {"integer", "number"}, p \in BoundPairs }

BoundedDocuments ==
  { Document(Obj1("/items", Obj1("post", Operation(JsonMedia(Obj1("schema", schema)))))) :
      schema \in BoundedSchemas }

\* a document one of whose paths is written in the output's placeholder form
RewrittenPathDocuments ==
  { Document(Obj2("/items/${id}", Obj1("get", PlainOperation),
                  "/items/{id}", Obj1("delete", PlainOperation))) }

\* a document whose names and example carry the characters XML reserves
MarkupDocuments ==
  { Document(Obj1("/items",
       Obj2("get", Obj1("summary", Str("find <all> & sort 'fast'")),
            "post", Obj2("operationId", Str("say \"hi\""),
                         "requestBody",
                         JsonMedia(Obj1("schema",
                           Obj2("type", Str("string"),
                                "example", Str("a<b & \"c\""))))))) ) }

\* an object whose property names include array indexes
NumberedSchema ==
  Obj2("type", Str("object"),
       "properties", Obj3("name", Typed("string"), "2", Typed("string"),
                          "1", Typed("integer")))

\* one GET operation without a body and one POST operation with a JSON body
RoundTripDocuments ==
  { Document(Obj1("/items",
       Obj2("get", PlainOperation,
            "post", Operation(JsonMedia(Obj1("schema", schema)))))) :
      schema \in {ItemSchema, NumberedSchema} }

\* parsed values that validation rejects, or accepts without a path mapping
OddDocuments ==
  { Document(Obj1("/items", Map(<< >>))),
    Document(Obj1("/items", Str("get"))),
    Document(Obj1("/items", Null)),
    Document(Obj1("/items", Obj1("get", Null))),
    Document(Obj2("/items", Obj1("get", PlainOperation), "/users", Obj1("post", Null))),
    Undefined, Null, Str("hello"), Str(""), Num(42), Dec(0), Bool(TRUE), Bool(FALSE),
    Arr(<< >>), Arr(<<Str("openapi")>>),
    Arr(<<Obj2("openapi", Str("3.0.0"), "paths", Map(<< >>))>>),
    Map(<< >>),
    Obj1("paths", Map(<< >>)),
    Obj1("info", Str("no marker, no paths")),
    Obj2("openapi", Str(""), "paths", Map(<< >>)),
    Obj2("swagger", Dec(0), "paths", Map(<< >>)),
    Obj2("swagger", Str("2.0"), "paths", Map(<< >>)),
    Obj2("swagger", Num(2), "paths", Obj1("/items", Obj1("get", PlainOperation))),
    Obj1("openapi", Str("3.0.0")),
    Obj2("openapi", Str("3.0.0"), "paths", Null),
    Obj2("openapi", Str("3.0.0"), "paths", Str("/items")),
    Obj2("openapi", Str("3.0.0"), "paths", Num(7)),
    Obj2("openapi", Str("3.0.0"), "paths", Bool(TRUE)),
    Obj2("openapi", Str("3.0.0"), "paths", Arr(<< >>)),
    Obj2("openapi", Str("3.0.0"), "paths", Arr(<<Obj1("get", PlainOperation)>>)) }

Throws    == [ok |-> FALSE]
Parsed(v) == [ok |-> TRUE, val |-> v]

\* a text in the primary encoding, and one only the secondary encoding reads
JsonText(v) == [blank |-> FALSE, json |-> Parsed(v), yaml |-> Parsed(v)]
YamlText(v) == [blank |-> FALSE, json |-> Throws, yaml |-> Parsed(v)]

EmptyText     == [blank |-> TRUE, json |-> Throws, yaml |-> Parsed(Undefined)]
MalformedText == [blank |-> FALSE, json |-> Throws, yaml |-> Throws]

\* JSON has no undefined: only yaml.load returns it (a text of comments)
Texts ==
  {EmptyText, MalformedText}
    \cup { JsonText(v) : v \in (TableDocuments \cup BodyDocuments \cup SharedDocuments
                                   \cup BoundedDocuments \cup RewrittenPathDocuments
                                   \cup MarkupDocuments \cup RoundTripDocuments
                                   \cup OddDocuments) \ {Undefined} }
    \cup { YamlText(v) : v \in BodyDocuments \cup OddDocuments }

\* a document that declares its servers
ServersDocument ==
  Map(<< <<"openapi", Str("3.0.0")>>,
         <<"servers", Arr(<<Obj1("url", Str("https://petstore.example.com/v2"))>>)>>,
         <<"paths", Obj1("/pets", Obj1("get", PlainOperation))>> >>)

\* a document that declares host and basePath, and no schemes
HostDocument ==
  Map(<< <<"swagger", Str("2.0")>>,
         <<"host", Str("legacy.example.com")>>,
         <<"basePath", Str("/api")>>,
         <<"paths", Obj1("/orders", Obj1("post", PlainOperation))>> >>)

\* a document that declares both its servers and a host
BothDocument ==
  Map(<< <<"openapi", Str("3.0.0")>>,
         <<"host", Str("old.example.com")>>,
         <<"servers", Arr(<<Obj1("url", Str("https://new.example.com"))>>)>>,
         <<"paths", Obj1("/pets", Obj1("get", PlainOperation))>> >>)

\* a document that declares host and schemes, and no basePath
SchemesDocument ==
  Map(<< <<"swagger", Str("2.0")>>,
         <<"host", Str("intranet.example.com")>>,
         <<"schemes", Arr(<<Str("http"), Str("https")>>)>>,
         <<"paths", Obj1("/orders", Obj1("post", PlainOperation))>> >>)

\* a document that declares no base URL
PlainDocument == Document(Obj1("/items", Obj1("get", PlainOperation)))

\* the files the user can choose: name, whether file.text() succeeds, text
Files ==
  { [name |-> "petstore.json", readable |-> TRUE, text |-> JsonText(ServersDocument)],
    [name |-> "legacy.yaml",   readable |-> TRUE, text |-> YamlText(HostDocument)],
    [name |-> "plain.yml",     readable |-> TRUE, text |-> YamlText(PlainDocument)],
    [name |-> "notjson.json",  readable |-> TRUE, text |-> YamlText(ServersDocument)],
    [name |-> "both.json",     readable |-> TRUE, text |-> JsonText(BothDocument)],
    [name |-> "intranet.yaml", readable |-> TRUE, text |-> YamlText(SchemesDocument)],
    [name |-> "broken.yaml",   readable |-> TRUE, text |-> MalformedText],
    [name |-> "gone.json",     readable |-> FALSE, text |-> EmptyText] }

\* what the user types or pastes into the inputs
TypedTexts    == {EmptyText, JsonText(PlainDocument)}
TypedBaseUrls == {"https://api.example.com/v1"}
TypedNames    == {"Load Test  Plan"}
TypedNumbers  == {"", "25"}

DefaultConfig ==
  [threadCount |-> 10, rampUpTime |-> 10, loopCount |-> 1,
   baseUrl |-> "", testPlanName |-> "API Performance Test"]

BaseUrls == {"", "https://api.example.com/v1", "http://localhost:8080", "api.example.com/v1"}

Configs == { [DefaultConfig EXCEPT !.baseUrl = url] : url \in BaseUrls }

\* the clock and the random source of one compile call
Years == {2026, 2027}
Environments ==
  [year : Years, rand : [1..MaxDraws -> 0..(RandomSteps - 1)]]

----------------------------------------------------------------------------
(* The component                                                           *)

\* jmeterXml is '' until a document is set
NoXml == [kind |-> "none"]

NoToast == [title |-> "", description |-> "", variant |-> ""]

\* lastRun before any call of handleGenerateJMeter
NotCalled == [called |-> FALSE]

\* no base URL typed into the input yet
NothingTyped == [set |-> FALSE]

\* no file handed to the browser yet
NoDownload == [name |-> "", content |-> NoXml]

\* no file chosen in the file input yet
NoFile == [name |-> "", readable |-> FALSE, text |-> EmptyText]

\* useState(...) of the component; no file read is pending, nothing was
\* typed and nothing downloaded
Init ==
  /\ swaggerContent = EmptyText
  /\ jmeterXml = NoXml
  /\ isProcessing = FALSE
  /\ config = DefaultConfig
  /\ toast = NoToast
  /\ lastRun = NotCalled
  /\ reads = << >>
  /\ explicit = NothingTyped
  /\ download = NoDownload
  /\ selected = NoFile
  /\ events = 0

\* a call that sets the document whatever became of the generation
xmlAfterCallAlwaysSet(run, current) == run.xml

\* jmeterXml after the try block: setJmeterXml(xml) is reached only when
\* nothing before it threw
xmlAfterCall(run, current) == IF run.ok THEN run.xml ELSE current

\* a call whose setIsProcessing(false) follows setJmeterXml inside the try
processingUpdatesInTry(run) == IF run.ok THEN <<TRUE, FALSE>> ELSE <<TRUE>>

\* the setIsProcessing calls of a call that went past the empty-input
\* return: true before the try, false in its finally
processingUpdates(run) == <<TRUE, FALSE>>

\* the state after the try / catch / finally of handleGenerateJMeter; the
\* state updates of the handler are applied in order, the last one stays
AfterTry(run) ==
  /\ isProcessing' = processingUpdates(run)[Len(processingUpdates(run))]
  /\ jmeterXml' = xmlAfterCall(run, jmeterXml)
  /\ toast' = IF run.ok
              THEN [title |-> "JMeter file generated successfully",
                    description |-> "You can now download the JMX file.",
                    variant |-> ""]
              ELSE [title |-> "Error generating JMeter file",
                    description |-> run.error,
                    variant |-> "destructive"]
  /\ lastRun' = [called |-> TRUE, early |-> FALSE, parsers |-> run.parsers,
                 text |-> swaggerContent,
                 spec |-> run.spec, cfg |-> config, stage |-> run.stage,
                 ok |-> run.ok, error |-> run.error, setXml |-> run.ok]
  /\ UNCHANGED <<swaggerContent, config, reads, explicit, download, selected>>

\* handleGenerateJMeter: one event handler without an await, so its state
\* updates are applied together.  lastRun records the call: its inputs, the
\* parsers it tried, the stage it reached and whether it called setJmeterXml.
handleGenerateJMeter ==
  \E env \in Environments :
    IF swaggerContent.blank
    THEN /\ toast' = [title |-> "No Swagger specification",
                      description |-> "Please upload a Swagger/OpenAPI file first.",
                      variant |-> "destructive"]
         /\ lastRun' = [called |-> TRUE, early |-> TRUE, parsers |-> << >>,
                        text |-> swaggerContent,
                        spec |-> Undefined, cfg |-> config, stage |-> "empty",
                        ok |-> FALSE, error |-> "", setXml |-> FALSE]
         /\ UNCHANGED <<swaggerContent, jmeterXml, isProcessing, config,
                        reads, explicit, download, selected>>
    ELSE AfterTry(Compile(swaggerContent, config, env))

----------------------------------------------------------------------------
(* handleFileUpload, the inputs of the form and handleDownload             *)

\* name.endsWith(suffix)
EndsWith(name, suffix) ==
  Len(suffix) <= Len(name)
    /\ SubSeq(name, Len(name) - Len(suffix) + 1, Len(name)) = suffix

\* a choice of parser that falls back on the other encoding
parseByExtensionWithFallback(name, content) ==
  IF EndsWith(name, ".yaml") \/ EndsWith(name, ".yml")
  THEN yamlLoad(content)
  ELSE IF JSONparse(content).ok THEN JSONparse(content) ELSE yamlLoad(content)

\* the parser handleFileUpload picks by the name of the file
parseByExtension(name, content) ==
  IF EndsWith(name, ".yaml") \/ EndsWith(name, ".yml")
  THEN yamlLoad(content)
  ELSE JSONparse(content)

\* `${scheme}://${parsedSpec.host}${parsedSpec.basePath || ''}` with
\* scheme = parsedSpec.schemes?.[0] || 'https'
HostUrl(scheme, host, basePath) ==
  (IF Truthy(scheme) THEN ToText(scheme) ELSE "https")
    \o "://" \o ToText(host)
    \o (IF Truthy(basePath) THEN ToText(basePath) ELSE "")

\* a derivation that looks at host before servers
derivedBaseUrlHostFirst(parsedSpec) ==
  IF Truthy(OptGet(parsedSpec, "host"))
  THEN [found |-> TRUE,
        url |-> HostUrl(OptGet(Get(parsedSpec, "schemes"), "0"),
                        Get(parsedSpec, "host"), Get(parsedSpec, "basePath"))]
  ELSE IF Truthy(OptGet(OptGet(OptGet(parsedSpec, "servers"), "0"), "url"))
  THEN [found |-> TRUE,
        url |-> ToText(Get(Get(Get(parsedSpec, "servers"), "0"), "url"))]
  ELSE [found |-> FALSE]

\* the base URL the upload takes from the parsed file, if it declares one
derivedBaseUrl(parsedSpec) ==
  IF Truthy(OptGet(OptGet(OptGet(parsedSpec, "servers"), "0"), "url"))
  THEN [found |-> TRUE,
        url |-> ToText(Get(Get(Get(parsedSpec, "servers"), "0"), "url"))]
  ELSE IF Truthy(OptGet(parsedSpec, "host"))
  THEN [found |-> TRUE,
        url |-> HostUrl(OptGet(Get(parsedSpec, "schemes"), "0"),
                        Get(parsedSpec, "host"), Get(parsedSpec, "basePath"))]
  ELSE [found |-> FALSE]

\* setConfig(prev => ({ ...prev, baseUrl })) when a base URL was derived
ConfigWith(prev, derived) ==
  IF derived.found THEN [prev EXCEPT !.baseUrl = derived.url] ELSE prev

\* the inner try of handleFileUpload: a parse error is swallowed
ConfigAfterParse(prev, parsed) ==
  IF parsed.ok THEN ConfigWith(prev, derivedBaseUrl(parsed.val)) ELSE prev

\* a sequence without its i-th element
RemoveAt(seq, i) == SubSeq(seq, 1, i - 1) \o SubSeq(seq, i + 1, Len(seq))

\* handleFileUpload up to `await file.text()`: the read of the chosen file
\* is pending.  Each pending read remembers what had been typed into the
\* base URL input when its file was chosen, and selected is the file of
\* the latest call.
handleFileUpload ==
  \E file \in Files :
    /\ Len(reads) < MaxReads
    /\ reads' = Append(reads, [file |-> file, explicit |-> explicit])
    /\ selected' = file
    /\ UNCHANGED <<swaggerContent, jmeterXml, isProcessing, config, toast,
                   lastRun, explicit, download>>

\* handleFileUpload after the await, for the i-th pending read: the text
\* arrived, or the read failed and the outer catch reports it
fileTextSettled ==
  \E i \in 1..Len(reads) :
    /\ reads' = RemoveAt(reads, i)
    /\ IF reads[i].file.readable
       THEN /\ swaggerContent' = reads[i].file.text
            /\ config' = ConfigAfterParse(config,
                           parseByExtension(reads[i].file.name, reads[i].file.text))
            /\ toast' = [title |-> "File uploaded successfully",
                         description |-> "Loaded " \o reads[i].file.name,
                         variant |-> ""]
       ELSE /\ toast' = [title |-> "Error uploading file",
                         description |-> "Please check your file format and try again.",
                         variant |-> "destructive"]
            /\ UNCHANGED <<swaggerContent, config>>
    /\ UNCHANGED <<jmeterXml, isProcessing, lastRun, explicit, download, selected>>

\* onChange of the textarea
swaggerContentChange ==
  \E text \in TypedTexts :
    /\ swaggerContent' = text
    /\ UNCHANGED <<jmeterXml, isProcessing, config, toast, lastRun, reads,
                   explicit, download, selected>>

\* onChange of the base URL input; explicit remembers what was typed
baseUrlChange ==
  \E url \in TypedBaseUrls :
    /\ config' = [config EXCEPT !.baseUrl = url]
    /\ explicit' = [set |-> TRUE, baseUrl |-> url]
    /\ UNCHANGED <<swaggerContent, jmeterXml, isProcessing, toast, lastRun,
                   reads, download, selected>>

\* onChange of the test plan name input
testPlanNameChange ==
  \E name \in TypedNames :
    /\ config' = [config EXCEPT !.testPlanName = name]
    /\ UNCHANGED <<swaggerContent, jmeterXml, isProcessing, toast, lastRun,
                   reads, explicit, download, selected>>

\* the value of a decimal digit, -1 for any other character
DigitValue(c) ==
  IF c \in IndexKeys THEN CHOOSE d \in 0..9 : ToString(d) = c ELSE 0 - 1

\* parseInt(raw) for an unsigned text: the number its leading digits spell
RECURSIVE parseIntFrom(_, _, _)
parseIntFrom(raw, k, acc) ==
  IF k > Len(raw) \/ DigitValue(CharAt(raw, k)) < 0
  THEN (IF k = 1 THEN [nan |-> TRUE] ELSE [nan |-> FALSE, n |-> acc])
  ELSE parseIntFrom(raw, k + 1, 10 * acc + DigitValue(CharAt(raw, k)))

\* parseInt(e.target.value) || 1
IntOrOne(parsed) == IF parsed.nan \/ parsed.n = 0 THEN 1 ELSE parsed.n

\* onChange of the threads, ramp-up and loops inputs
numberChange ==
  \E field \in {"threadCount", "rampUpTime", "loopCount"}, raw \in TypedNumbers :
    /\ config' = [config EXCEPT ![field] = IntOrOne(parseIntFrom(raw, 1, 0))]
    /\ UNCHANGED <<swaggerContent, jmeterXml, isProcessing, toast, lastRun,
                   reads, explicit, download, selected>>

\* name.replace(/\s+/g, '_')
RECURSIVE UnderscoreSpaces(_, _)
UnderscoreSpaces(name, inRun) ==
  IF name = "" THEN ""
  ELSE IF CharAt(name, 1) \in {" ", "\t", "\n"}
  THEN (IF inRun THEN "" ELSE "_") \o UnderscoreSpaces(SubSeq(name, 2, Len(name)), TRUE)
  ELSE CharAt(name, 1) \o UnderscoreSpaces(SubSeq(name, 2, Len(name)), FALSE)

\* a download that consumes the document it hands over
handleDownloadConsuming ==
  /\ jmeterXml # NoXml
  /\ download' = [name |-> UnderscoreSpaces(config.testPlanName, FALSE) \o ".jmx",
                  content |-> jmeterXml]
  /\ jmeterXml' = NoXml
  /\ UNCHANGED <<swaggerContent, isProcessing, config, toast,
                 lastRun, reads, explicit, selected>>

\* handleDownload: the document is handed to the browser under the plan's name
handleDownload ==
  /\ jmeterXml # NoXml
  /\ download' = [name |-> UnderscoreSpaces(config.testPlanName, FALSE) \o ".jmx",
                  content |-> jmeterXml]
  /\ UNCHANGED <<swaggerContent, jmeterXml, isProcessing, config, toast,
                 lastRun, reads, explicit, selected>>

\* the Generate button is disabled for a blank text and while processing
generateClick == ~swaggerContent.blank /\ ~isProcessing /\ handleGenerateJMeter

\* a behaviour of the model has a budget of MaxEvents events
Budget == events < MaxEvents /\ events' = events + 1

Next ==
  \/ Budget /\ handleFileUpload
  \/ Budget /\ fileTextSettled
  \/ Budget /\ swaggerContentChange
  \/ Budget /\ baseUrlChange
  \/ Budget /\ testPlanNameChange
  \/ Budget /\ numberChange
  \/ Budget /\ generateClick
  \/ Budget /\ handleDownload

Spec == Init /\ [][Next]_vars

----------------------------------------------------------------------------
(* The compile call on its own: any text and configuration, with or        *)
(* without a document left by an earlier successful call                   *)

\* the document an earlier call left for a one-operation specification
EarlierXml ==
  Compile(JsonText(Document(Obj1("/items", Obj1("get", PlainOperation)))),
          DefaultConfig,
          [year |-> 2026, rand |-> [i \in 1..MaxDraws |-> 0]]).xml

InitCompile ==
  /\ swaggerContent \in Texts
  /\ jmeterXml \in {NoXml, EarlierXml}
  /\ isProcessing = FALSE
  /\ config \in Configs
  /\ toast = NoToast
  /\ lastRun = NotCalled
  /\ reads = << >>
  /\ explicit = NothingTyped
  /\ download = NoDownload
  /\ selected = NoFile
  /\ events = 0

NextCompile == handleGenerateJMeter /\ UNCHANGED events

SpecCompile == InitCompile /\ [][NextCompile]_vars

----------------------------------------------------------------------------
(* Properties of the compile call                                          *)

\* the last call of handleGenerateJMeter went past the empty-input return
Compiled == lastRun.called /\ ~lastRun.early

\* the seven method names and the attribute each one is emitted as
MethodAttribute ==
  [get |-> "GET", post |-> "POST", put |-> "PUT", delete |-> "DELETE",
   patch |-> "PATCH", head |-> "HEAD", options |-> "OPTIONS"]

\* the (path, key) pairs of a path table whose key is a method name, path
\* by path and key by key in the order of the document
RECURSIVE MethodPairs(_)
MethodPairs(pathEntries) ==
  IF pathEntries = << >> THEN << >>
  ELSE LET path == Head(pathEntries)[1]
           keys == SelectSeq(Entries(Head(pathEntries)[2]),
                             LAMBDA e : e[1] \in DOMAIN MethodAttribute)
       IN  [i \in 1..Len(keys) |-> <<path, keys[i][1]>>] \o MethodPairs(Tail(pathEntries))

\* C1: a successful call emits exactly one sampler per (path, method key)
\* pair of the path table, in document order (paths outermost), none for a
\* key that is not one of the seven method names, and always exactly two
\* result collectors; an empty path table gives no sampler.
C1_OneSamplerPerMethodKey ==
  (Compiled /\ lastRun.ok) =>
    LET pairs  == MethodPairs(Entries(Get(lastRun.spec, "paths")))
        prefix == urlParts(lastRun.cfg).path
    IN  /\ jmeterXml.kind = "jmx"
        /\ Len(jmeterXml.samplers) = Len(pairs)
        /\ \A i \in 1..Len(pairs) :
             /\ jmeterXml.samplers[i].method = MethodAttribute[pairs[i][2]]
             /\ jmeterXml.samplers[i].path = prefix \o pathWithoutParams(pairs[i][1])
        /\ Len(jmeterXml.collectors) = 2
        /\ (Entries(Get(lastRun.spec, "paths")) = << >> => jmeterXml.samplers = << >>)

\* C1 witness: a document of two paths whose items mix method keys with
\* other keys compiled to its samplers
C1_Witness ==
  /\ Compiled /\ lastRun.ok
  /\ Len(Entries(Get(lastRun.spec, "paths"))) = 2
  /\ Len(jmeterXml.samplers) = 2
  /\ \E i \in 1..2 : HasKey(Entries(Get(lastRun.spec, "paths"))[i][2], "parameters")
  /\ \E i \in 1..2 : HasKey(Entries(Get(lastRun.spec, "paths"))[i][2], "trace")

\* C2: a failing call is terminal: it reports the message of the error it
\* threw in a destructive toast, never calls setJmeterXml and leaves
\* jmeterXml as it was; a succeeding call sets a complete document.
C2_FailureLeavesNoOutput ==
  [][ (lastRun' # lastRun /\ lastRun'.called /\ ~lastRun'.early) =>
        IF lastRun'.ok
        THEN /\ lastRun'.setXml
             /\ jmeterXml'.kind = "jmx"
             /\ Len(jmeterXml'.collectors) = 2
        ELSE /\ ~lastRun'.setXml
             /\ jmeterXml' = jmeterXml
             /\ lastRun'.error # ""
             /\ toast' = [title |-> "Error generating JMeter file",
                          description |-> lastRun'.error,
                          variant |-> "destructive"] ]_vars

\* C2 witness: a call failed inside generateJMeterXml, after validation,
\* while an earlier document was held, and the document is still held
C2_Witness ==
  /\ Compiled /\ ~lastRun.ok
  /\ lastRun.stage = "generate"
  /\ jmeterXml = EarlierXml
  /\ toast.description = lastRun.error

\* C3: a parsed mapping with neither an openapi nor a swagger field is
\* rejected with the missing-version-marker message, whether or not it
\* has paths, and never with the parse-failure message.
C3_MissingVersionMarker ==
  (Compiled /\ lastRun.stage # "parse" /\ IsMapping(lastRun.spec)
     /\ ~HasKey(lastRun.spec, "openapi") /\ ~HasKey(lastRun.spec, "swagger")) =>
    /\ ~lastRun.ok
    /\ lastRun.error =
         "Not a valid OpenAPI/Swagger specification. Missing 'openapi' or 'swagger' field."
    /\ toast.description = lastRun.error
    /\ toast.variant = "destructive"

\* C3 witness: a mapping with neither marker and no paths was rejected
C3_Witness ==
  /\ Compiled /\ IsMapping(lastRun.spec)
  /\ ~HasKey(lastRun.spec, "openapi") /\ ~HasKey(lastRun.spec, "swagger")
  /\ ~HasKey(lastRun.spec, "paths")
  /\ lastRun.spec # Map(<< >>)
  /\ lastRun.stage = "version"

\* C4: whenever the parsed document is not a mapping (a scalar or a
\* sequence) the call fails with "Invalid specification format".
C4_NonMappingIsInvalidShape ==
  (Compiled /\ lastRun.stage # "parse" /\ ~IsMapping(lastRun.spec)) =>
    (~lastRun.ok /\ lastRun.error = "Invalid specification format")

\* C5: whenever a parsed mapping with a version marker has no paths
\* entry, or one that is not a mapping, the call fails with "No paths
\* found in the specification" before any sampler is extracted.
C5_NonMappingPathsIsMissingPaths ==
  (Compiled /\ lastRun.stage # "parse" /\ IsMapping(lastRun.spec)
     /\ (Truthy(Get(lastRun.spec, "openapi")) \/ Truthy(Get(lastRun.spec, "swagger")))
     /\ ~IsMapping(Get(lastRun.spec, "paths"))) =>
    /\ ~lastRun.ok
    /\ lastRun.error = "No paths found in the specification"
    /\ lastRun.stage = "paths"

\* C6: JSON.parse is tried first and yaml.load only when JSON.parse threw;
\* the call fails with "Invalid JSON or YAML format" exactly when both
\* threw, and reaches the shape validation exactly when one returned.
C6_PrimaryThenSecondary ==
  Compiled =>
    /\ Len(lastRun.parsers) >= 1 /\ lastRun.parsers[1] = "JSON.parse"
    /\ (Len(lastRun.parsers) = 2 <=> ~lastRun.text.json.ok)
    /\ (Len(lastRun.parsers) = 2 => lastRun.parsers[2] = "yaml.load")
    /\ (lastRun.error = "Invalid JSON or YAML format"
          <=> (~lastRun.text.json.ok /\ ~lastRun.text.yaml.ok))
    /\ (lastRun.stage # "parse"
          <=> (lastRun.text.json.ok \/ lastRun.text.yaml.ok))
    /\ (lastRun.stage # "parse" =>
          lastRun.spec = IF lastRun.text.json.ok THEN JSONparse(lastRun.text).val
                         ELSE yamlLoad(lastRun.text).val)

\* C6 witness: JSON.parse threw, yaml.load returned a document and the
\* call went on to generate from it
C6_Witness ==
  /\ Compiled /\ lastRun.ok
  /\ lastRun.parsers = <<"JSON.parse", "yaml.load">>
  /\ ~lastRun.text.json.ok

\* the operation of a (path, key) pair and the schema it declares at
\* requestBody.content["application/json"].schema (Undefined when any step
\* of that chain is missing)
OperationAt(spec, pair) == OptGet(OptGet(Get(spec, "paths"), pair[1]), pair[2])

JsonSchemaOf(operation) ==
  OptGet(OptGet(OptGet(OptGet(operation, "requestBody"), "content"),
                "application/json"), "schema")

\* the pairs of the last compiled document, and those whose method takes a body
LastPairs == MethodPairs(Entries(Get(lastRun.spec, "paths")))

BodyPairIndexes == { i \in 1..Len(LastPairs) : LastPairs[i][2] \in {"post", "put", "patch"} }

SchemaAt(i) == JsonSchemaOf(OperationAt(lastRun.spec, LastPairs[i]))

\* the node a reference marker points to, Undefined when a segment is missing
IsRef(schema) == IsMapping(schema) /\ HasKey(schema, "$ref") /\ Get(schema, "$ref").t = "string"

Target(schema, spec) ==
  WalkRef(spec, Split(ReplaceFirst(Get(schema, "$ref").s, "#/", ""), "/"))

\* the schema is, or has a property that is, a pointer with a missing segment
Dangling(schema, spec) ==
  \/ IsRef(schema) /\ Target(schema, spec) = Undefined
  \/ /\ IsMapping(schema)
     /\ \E e \in { Entries(Get(schema, "properties"))[i] :
                     i \in 1..Len(Entries(Get(schema, "properties"))) } :
          IsRef(e[2]) /\ Target(e[2], spec) = Undefined

\* C7: when a pointer met during synthesis has a missing segment the call
\* fails: no empty schema is substituted and no value is synthesized.
C7_UnresolvableReferenceFails ==
  (Compiled /\ lastRun.stage = "generate"
     /\ \E i \in BodyPairIndexes : Dangling(SchemaAt(i), lastRun.spec)) =>
    ~lastRun.ok

\* the property names of a schema A = the target of the pointer, whose
\* schema is the same pointer again
SelfReferences(schema, spec) ==
  IF IsRef(schema) /\ IsMapping(Target(schema, spec))
  THEN { e[1] : e \in { x \in { Entries(Get(Target(schema, spec), "properties"))[i] :
                                  i \in 1..Len(Entries(Get(Target(schema, spec), "properties"))) } :
                          x[2] = schema } }
  ELSE { }

\* C8: synthesis of a schema with a property that refers back to the
\* schema returns, and the self-referencing field of the body is null.
C8_SelfReferenceSynthesizesNull ==
  (Compiled /\ lastRun.stage = "generate") =>
    \A i \in BodyPairIndexes :
      \A key \in SelfReferences(SchemaAt(i), lastRun.spec) :
        /\ lastRun.ok
        /\ jmeterXml.samplers[i].postBodyRaw
        /\ Includes(jmeterXml.samplers[i].arguments[1], "&quot;" \o key \o "&quot;: null")

\* the literal schema at the end of a chain of pointers of at most n links
RECURSIVE EndOfChain(_, _, _)
EndOfChain(schema, spec, n) ==
  IF n = 0 \/ ~IsRef(schema) THEN schema
  ELSE EndOfChain(Target(schema, spec), spec, n - 1)

ChainLength == 3

\* a pointer to a pointer, the chain ending at a literal schema
IsChain(schema, spec) ==
  /\ IsRef(schema)
  /\ IsRef(Target(schema, spec))
  /\ IsMapping(EndOfChain(schema, spec, ChainLength))
  /\ ~IsRef(EndOfChain(schema, spec, ChainLength))

\* the body text a sampler carries for a literal schema
BodyTextOf(schema, spec) ==
  ReplaceAllChar(
    Stringify(generateSampleJson(schema, "", [id |-> 1, draws |-> 0], 1,
                 [spec |-> spec, year |-> 2026, rand |-> [d \in 1..MaxDraws |-> 0]]).val, 0),
    "\"", "&quot;")

\* C9: a pointer whose target is itself a pointer is followed to the end
\* of the chain: the body is the one of the literal schema at the end.
C9_ChainedReferencesFollowed ==
  (Compiled /\ lastRun.ok) =>
    \A i \in BodyPairIndexes :
      IsChain(SchemaAt(i), lastRun.spec) =>
        /\ jmeterXml.samplers[i].postBodyRaw
        /\ jmeterXml.samplers[i].arguments
             = <<BodyTextOf(EndOfChain(SchemaAt(i), lastRun.spec, ChainLength), lastRun.spec)>>

ItemBody  == "{\n  &quot;id&quot;: 1,\n  &quot;name&quot;: &quot;sampleName&quot;\n}"
OrderBody == "{\n  &quot;orderId&quot;: &quot;1&quot;,\n  &quot;userId&quot;: 2\n}"

\* C11: the identifier counter belongs to one request-body synthesis: the
\* id-like fields of one body get 1, 2, ... in traversal order, and every
\* body starts again at 1 however many bodies of the same call or earlier
\* calls came before it.
C11_CounterPerBody ==
  (Compiled /\ lastRun.ok) =>
    \A i \in BodyPairIndexes :
      /\ SchemaAt(i) \in {ItemSchema, Ref("Item")} =>
           jmeterXml.samplers[i].arguments = <<ItemBody>>
      /\ SchemaAt(i) = OrderSchema =>
           jmeterXml.samplers[i].arguments = <<OrderBody>>

\* C11 witness: three bodies with two identifier fields each were
\* synthesized in one call, and each one counts from 1
C11_Witness ==
  /\ Compiled /\ lastRun.ok
  /\ Len(jmeterXml.samplers) = 4
  /\ BodyPairIndexes = {1, 2, 4}
  /\ \A i \in BodyPairIndexes :
       SchemaAt(i) = OrderSchema /\ jmeterXml.samplers[i].arguments = <<OrderBody>>

\* the value the priority example, examples[0], enum[0] gives a schema,
\* Undefined when the schema declares none of them
PriorityValue(schema) ==
  IF Get(schema, "example") # Undefined THEN Get(schema, "example")
  ELSE IF IsSequence(Get(schema, "examples")) /\ Get(schema, "examples").a # << >>
  THEN Get(schema, "examples").a[1]
  ELSE IF /\ Get(schema, "type") = Str("string")
          /\ IsSequence(Get(schema, "enum")) /\ Get(schema, "enum").a # << >>
  THEN Get(schema, "enum").a[1]
  ELSE Undefined

\* an object schema all of whose properties declare an example or an enum
DeclaresValues(schema) ==
  /\ IsMapping(schema)
  /\ Get(schema, "example") = Undefined
  /\ Get(schema, "type") = Str("object")
  /\ IsMapping(Get(schema, "properties"))
  /\ Entries(Get(schema, "properties")) # << >>
  /\ \A k \in 1..Len(Entries(Get(schema, "properties"))) :
       /\ IsMapping(Entries(Get(schema, "properties"))[k][2])
       /\ PriorityValue(Entries(Get(schema, "properties"))[k][2]) # Undefined

\* the body of such a schema: every property with its declared value
DeclaredBody(schema) ==
  ReplaceAllChar(
    Stringify(Map([k \in 1..Len(Entries(Get(schema, "properties"))) |->
                     <<Entries(Get(schema, "properties"))[k][1],
                       PriorityValue(Entries(Get(schema, "properties"))[k][2])>>]), 0),
    "\"", "&quot;")

\* C12: a declared example wins, then the first of the examples, then for
\* a string the first value of its enum, whatever the property is called:
\* the name-based values come after all three.
C12_EnumBeforeNameHeuristic ==
  (Compiled /\ lastRun.ok) =>
    \A i \in BodyPairIndexes :
      DeclaresValues(SchemaAt(i)) =>
        jmeterXml.samplers[i].arguments = <<DeclaredBody(SchemaAt(i))>>

\* the numbers a body of the bounded schemas can show, in hundredths
SampleValues == { k * Scale : k \in 0..200 } \cup { m.n : m \in (Minimums \cup Maximums) \ {Undefined} }

SizeBody(v) == "{\n  &quot;size&quot;: " \o NumText(v) \o "\n}"

SizeSchema(schema) == Get(Get(schema, "properties"), "size")

\* C13: without an example and without a name match a numeric value lies
\* within the declared bounds: not below a declared minimum, not above a
\* declared maximum (for minimum <= maximum), and it is 1 when neither
\* bound is declared.
C13_ClampedToBounds ==
  (Compiled /\ lastRun.ok) =>
    \A i \in BodyPairIndexes :
      SchemaAt(i) \in BoundedSchemas =>
        \E v \in SampleValues :
          /\ jmeterXml.samplers[i].arguments = <<SizeBody(v)>>
          /\ Get(SizeSchema(SchemaAt(i)), "minimum") # Undefined =>
               v >= Get(SizeSchema(SchemaAt(i)), "minimum").n
          /\ Get(SizeSchema(SchemaAt(i)), "maximum") # Undefined =>
               v <= Get(SizeSchema(SchemaAt(i)), "maximum").n
          /\ ( /\ Get(SizeSchema(SchemaAt(i)), "minimum") = Undefined
               /\ Get(SizeSchema(SchemaAt(i)), "maximum") = Undefined ) => v = 1 * Scale

\* the synthesis of a schema takes no value from the identifier counter
\* and makes no random draw: it has no id-, month- or day-named field
Steady(schema, spec) ==
  LET r == generateSampleJson(schema, "", [id |-> 1, draws |-> 0], 1,
             [spec |-> spec, year |-> 2026, rand |-> [d \in 1..MaxDraws |-> 0]])
  IN  r.ok /\ r.st = [id |-> 1, draws |-> 0]

\* C14: synthesis is deterministic for schemas without id-, month- or
\* day-named fields: a second compile call on the same text and the same
\* configuration yields the same document as the first.
C14_SynthesisDeterministic ==
  [][ ( /\ Compiled /\ lastRun.ok
        /\ lastRun'.called /\ ~lastRun'.early /\ lastRun'.ok
        /\ lastRun'.text = lastRun.text
        /\ lastRun'.cfg = lastRun.cfg
        /\ \A i \in BodyPairIndexes :
             IsMapping(SchemaAt(i)) => Steady(SchemaAt(i), lastRun.spec) )
      => jmeterXml' = jmeterXml ]_vars

\* every brace of the path already follows a dollar sign
AlreadyRewritten(path) ==
  \A k \in 1..Len(path) :
    CharAt(path, k) = "{" => (k > 1 /\ CharAt(path, k - 1) = "$")

\* the placeholder form of the paths of the model
PlaceholderForm ==
  [p \in {"/items", "/items/{id}", "/users/{userId}/orders"} |->
     CASE p = "/items/{id}" -> "/items/${id}"
       [] p = "/users/{userId}/orders" -> "/users/${userId}/orders"
       [] OTHER -> p]

\* C15: the placeholder rewrite turns each {name} into ${name}, gives
\* different paths different results, and leaves a path that is already
\* in the placeholder form as it is.
C15_RewriteIdempotent ==
  (Compiled /\ lastRun.ok) =>
    /\ \A i \in 1..Len(LastPairs) :
         /\ LastPairs[i][1] \in DOMAIN PlaceholderForm =>
              jmeterXml.samplers[i].path
                = urlParts(lastRun.cfg).path \o PlaceholderForm[LastPairs[i][1]]
         /\ AlreadyRewritten(LastPairs[i][1]) =>
              jmeterXml.samplers[i].path = urlParts(lastRun.cfg).path \o LastPairs[i][1]
    /\ \A i, j \in 1..Len(LastPairs) :
         LastPairs[i][1] # LastPairs[j][1] =>
           jmeterXml.samplers[i].path # jmeterXml.samplers[j].path

\* C16: the request-defaults element carries the protocol, host, port and
\* path prefix parsed from config.baseUrl: for https://api.example.com/v1
\* the host api.example.com, the protocol https and the prefix /v1.
C16_DefaultsCarryBaseUrl ==
  (Compiled /\ lastRun.ok) =>
    /\ jmeterXml.defaults.domain = urlParts(lastRun.cfg).domain
    /\ jmeterXml.defaults.protocol = urlParts(lastRun.cfg).protocol
    /\ jmeterXml.defaults.port = urlParts(lastRun.cfg).port
    /\ jmeterXml.defaults.path = urlParts(lastRun.cfg).path
    /\ lastRun.cfg.baseUrl = "https://api.example.com/v1" =>
         /\ jmeterXml.defaults.domain = "api.example.com"
         /\ jmeterXml.defaults.protocol = "https"
         /\ jmeterXml.defaults.path = "/v1"

\* the five character references of XML
XmlEntities == {"&quot;", "&apos;", "&amp;", "&lt;", "&gt;"}

\* no character of s can end the attribute or element s is placed in
XmlSafe(s) ==
  \A k \in 1..Len(s) :
    /\ CharAt(s, k) \notin {"\"", "'", "<", ">"}
    /\ CharAt(s, k) = "&" => \E e \in XmlEntities : MatchAt(s, e, k)

\* C17: every value interpolated into the document (plan name, base URL,
\* sampler name, method, path, body text) has the five XML-significant
\* characters escaped; in particular no quote of a body survives.
C17_InterpolatedValuesEscaped ==
  (Compiled /\ lastRun.ok) =>
    /\ XmlSafe(jmeterXml.testname)
    /\ XmlSafe(jmeterXml.BASE_URL)
    /\ \A i \in 1..Len(jmeterXml.samplers) :
         /\ XmlSafe(jmeterXml.samplers[i].testname)
         /\ XmlSafe(jmeterXml.samplers[i].method)
         /\ XmlSafe(jmeterXml.samplers[i].path)
         /\ \A a \in 1..Len(jmeterXml.samplers[i].arguments) :
              XmlSafe(jmeterXml.samplers[i].arguments[a])

\* the (path, key) pairs whose key names a method in any casing
RECURSIVE MethodPairsAnyCase(_)
MethodPairsAnyCase(pathEntries) ==
  IF pathEntries = << >> THEN << >>
  ELSE LET path == Head(pathEntries)[1]
           keys == SelectSeq(Entries(Head(pathEntries)[2]),
                             LAMBDA e : toLowerCase(e[1]) \in DOMAIN MethodAttribute)
       IN  [i \in 1..Len(keys) |-> <<path, keys[i][1]>>]
             \o MethodPairsAnyCase(Tail(pathEntries))

\* C18: every operation's sampler has the uppercased method key as its
\* method, for each of the seven methods, and a method key written in
\* another casing is still an operation: its casing is normalized.
C18_MethodKeyCasingNormalized ==
  (Compiled /\ lastRun.ok) =>
    LET pairs == MethodPairsAnyCase(Entries(Get(lastRun.spec, "paths")))
    IN  /\ Len(jmeterXml.samplers) = Len(pairs)
        /\ \A i \in 1..Len(pairs) :
             jmeterXml.samplers[i].method = toUpperCase(pairs[i][2])

\* the document as the compiled text declares it
DeclaredDocument ==
  IF lastRun.text.json.ok THEN lastRun.text.json.val ELSE lastRun.text.yaml.val

DeclaredSchemaAt(i) == JsonSchemaOf(OperationAt(DeclaredDocument, LastPairs[i]))

\* an object schema whose properties are all of a scalar type
FlatObject(schema) ==
  /\ IsMapping(schema)
  /\ Get(schema, "type") = Str("object")
  /\ Get(schema, "example") = Undefined /\ Get(schema, "examples") = Undefined
  /\ IsMapping(Get(schema, "properties"))
  /\ Get(schema, "properties").m # << >>
  /\ \A k \in 1..Len(Get(schema, "properties").m) :
       /\ IsMapping(Get(schema, "properties").m[k][2])
       /\ Get(Get(schema, "properties").m[k][2], "type")
            \in {Str("string"), Str("integer"), Str("number"), Str("boolean")}

\* the key of one member line of a body:   &quot;key&quot;: value
KeyOfLine(line) == SubSeq(line, 9, IndexFrom(line, "&quot;", 9) - 1)

\* the keys a body text of a flat object decodes to, in the order of the text
KeysOfBody(body) ==
  [k \in 1..(Len(Split(body, "\n")) - 2) |-> KeyOfLine(Split(body, "\n")[k + 1])]

\* C19: the mapping synthesized for an object schema has the declared
\* property names as keys, in declaration order, and the body text keeps
\* that order; a document with a body-less GET and a POST whose body schema
\* is {id: integer, name: string} gives two samplers, the POST one with a
\* raw body that decodes to the keys id, name.
C19_PropertiesInDeclarationOrder ==
  (Compiled /\ lastRun.ok) =>
    \A i \in BodyPairIndexes :
      FlatObject(DeclaredSchemaAt(i)) =>
        /\ jmeterXml.samplers[i].postBodyRaw
        /\ Len(jmeterXml.samplers[i].arguments) = 1
        /\ KeysOfBody(jmeterXml.samplers[i].arguments[1])
             = [k \in 1..Len(Get(DeclaredSchemaAt(i), "properties").m) |->
                  Get(DeclaredSchemaAt(i), "properties").m[k][1]]
        /\ ( /\ DeclaredSchemaAt(i) = ItemSchema
             /\ LastPairs = << <<"/items", "get">>, <<"/items", "post">> >> ) =>
             /\ Len(jmeterXml.samplers) = 2
             /\ jmeterXml.samplers[1].arguments = << >>
             /\ KeysOfBody(jmeterXml.samplers[2].arguments[1]) = <<"id", "name">>

----------------------------------------------------------------------------
(* Properties of the component                                             *)

\* C20: the base URL a file declares is advisory: when a base URL was typed
\* into the input and a file is chosen afterwards, config.baseUrl is still
\* the typed value when the upload completes.
C20_ExplicitBaseUrlKept ==
  [][ \A i \in 1..Len(reads) :
        ( /\ reads' = RemoveAt(reads, i)
          /\ reads[i].explicit.set
          /\ explicit = reads[i].explicit )
        => config'.baseUrl = explicit.baseUrl ]_vars

\* the outcome of the upload of a readable file is in place: the text is
\* the file's and the base URL the file declares, if any, is the current one
InPlace(file, content, cfg) ==
  /\ file.readable
  /\ content = file.text
  /\ cfg = ConfigAfterParse(cfg, parseByExtension(file.name, file.text))

\* C21: when the read of an earlier chosen file completes after the read of
\* the most recently selected file has, swaggerContent and the derived
\* baseUrl stay those of the most recently selected file.
C21_LatestSelectionWins ==
  [][ ( /\ Len(reads) = 1 /\ reads' = << >>
        /\ reads[1].file # selected
        /\ InPlace(selected, swaggerContent, config) )
      => InPlace(selected, swaggerContent', config') ]_vars

\* C22: a step changes jmeterXml only when it is a handleGenerateJMeter call
\* that succeeded on the current text and configuration; uploads, edits,
\* downloads and failed calls leave it alone, and a document once set is
\* never emptied.
C22_OnlySuccessfulGenerateSetsXml ==
  [][ /\ (jmeterXml' # jmeterXml =>
            /\ lastRun'.called /\ lastRun'.ok /\ lastRun'.setXml
            /\ lastRun'.text = swaggerContent /\ lastRun'.cfg = config
            /\ UNCHANGED <<swaggerContent, config, reads, download>>)
      /\ ((lastRun' # lastRun /\ ~lastRun'.ok) => jmeterXml' = jmeterXml)
      /\ (jmeterXml # NoXml => jmeterXml' # NoXml) ]_vars

\* C22 witness: the document of a successful call was downloaded after the
\* plan had been renamed and the text replaced: the file handed over was
\* generated from a text and a configuration that are no longer current
C22_Witness ==
  /\ lastRun.called /\ lastRun.ok /\ jmeterXml # NoXml
  /\ lastRun.cfg.testPlanName # config.testPlanName
  /\ lastRun.text # swaggerContent
  /\ download.content = jmeterXml
  /\ download.name = UnderscoreSpaces(config.testPlanName, FALSE) \o ".jmx"

\* C23: isProcessing is false after every handleGenerateJMeter call,
\* whatever stage the call failed at; a call on a blank text takes the early
\* return and changes none of isProcessing, jmeterXml, swaggerContent, config.
C23_ProcessingFlagReleased ==
  [][ handleGenerateJMeter =>
        /\ isProcessing' = FALSE
        /\ (swaggerContent.blank <=> lastRun'.early)
        /\ (swaggerContent.blank =>
              UNCHANGED <<isProcessing, jmeterXml, swaggerContent, config>>) ]_vars

\* C23 witness: a call that threw inside generateJMeterXml has returned and
\* isProcessing is false
C23_Witness ==
  /\ Compiled /\ ~lastRun.ok /\ lastRun.stage = "generate"
  /\ ~isProcessing

\* the step completes the read of the i-th pending upload
Settles(i) == i \in 1..Len(reads) /\ reads' = RemoveAt(reads, i)

\* the base URL each file of the catalogue declares, "" when it declares none
\* or when the parser its name selects cannot read it
DeclaredBaseUrl(name) ==
  CASE name = "petstore.json" -> "https://petstore.example.com/v2"
    [] name = "legacy.yaml"   -> "https://legacy.example.com/api"
    [] name = "both.json"     -> "https://new.example.com"
    [] name = "intranet.yaml" -> "http://intranet.example.com"
    [] OTHER -> ""

\* C24: an upload leaves threadCount, rampUpTime, loopCount and testPlanName
\* alone; baseUrl becomes servers[0].url if the file has one, else
\* scheme://host+basePath (https and "" by default) if it has a host, and
\* otherwise config is unchanged.
C24_UploadChangesOnlyBaseUrl ==
  [][ \A i \in 1..Len(reads) : Settles(i) =>
        /\ config' = [config EXCEPT !.baseUrl = config'.baseUrl]
        /\ IF reads[i].file.readable /\ DeclaredBaseUrl(reads[i].file.name) # ""
           THEN config'.baseUrl = DeclaredBaseUrl(reads[i].file.name)
           ELSE config' = config ]_vars

\* C24 witness: both.json, which declares servers and a host, was uploaded
\* after the thread count and the plan name had been edited
C24_Witness ==
  /\ toast.description = "Loaded both.json"
  /\ config.baseUrl = "https://new.example.com"
  /\ config.threadCount = 25
  /\ config.testPlanName = "Load Test  Plan"

\* the name ends in .yaml or .yml
YamlName(name) ==
  \/ SubSeq(name, Len(name) - 4, Len(name)) = ".yaml"
  \/ SubSeq(name, Len(name) - 3, Len(name)) = ".yml"

\* the one parser the name of the file selects cannot read its text
Unparsable(file) ==
  IF YamlName(file.name) THEN ~file.text.yaml.ok ELSE ~file.text.json.ok

\* C25: a completed read sets swaggerContent to the text of the file and
\* reports success whether or not the parser its name selects can read the
\* text; when that parser cannot, config is unchanged.  Only a failed read
\* reports an error, and then swaggerContent and config are unchanged.
C25_UnparsableUploadSucceeds ==
  [][ \A i \in 1..Len(reads) : Settles(i) =>
        IF reads[i].file.readable
        THEN /\ swaggerContent' = reads[i].file.text
             /\ toast'.title = "File uploaded successfully"
             /\ toast'.description = "Loaded " \o reads[i].file.name
             /\ toast'.variant # "destructive"
             /\ (Unparsable(reads[i].file) => config' = config)
        ELSE /\ toast'.title = "Error uploading file"
             /\ toast'.variant = "destructive"
             /\ UNCHANGED <<swaggerContent, config>> ]_vars

\* C25 witness: notjson.json, a YAML text under a .json name that declares
\* its servers, was uploaded: its text is the current one, success was
\* reported and no base URL was taken from it
C25_Witness ==
  /\ toast.title = "File uploaded successfully"
  /\ toast.description = "Loaded notjson.json"
  /\ swaggerContent = YamlText(ServersDocument)
  /\ ~swaggerContent.json.ok /\ swaggerContent.yaml.ok
  /\ config.baseUrl = ""

====
